---- MODULE Spec2Model ----
(***************************************************************************)
(* Feature review synchronisation (bun-api-fe-review-geojson): the layer   *)
(* registry and the review store (src/api/db.ts, layers.ts, features.ts),  *)
(* the apply-flags handler that bakes the stored flags into a layer's      *)
(* GeoJSON file, and the map and table views that load the file, step      *)
(* through its features and toggle flags.                                  *)
(***************************************************************************)
EXTENDS Integers, Sequences, FiniteSets, Bags, TLC

VARIABLES
    layers,      \* table layers, rows in rowid order
    reviews,     \* table feature_reviews, a set of rows
    foreignKeys, \* whether the SQLite connection enforces foreign keys
    nextId,      \* number of layer ids drawn so far (randomUUID)
    clock,       \* wall clock read by new Date()
    files,       \* the GeoJSON files on disk, by layer url
    bake,        \* the apply-flags requests in flight (a bag of handler states)
    resp,        \* the last HTTP response sent, with the request it answers
    route,       \* the client route that is mounted: "map" or "table"
    cLayers,     \* the client's cached result of GET /api/layers
    cReviews,    \* the client's cached result of GET /api/features/layer/:id, by layer
    features,    \* the mounted view's features state
    currentFeatureIndex, \* the map view's cursor
    selectedLayerId,     \* the map view's selectedLayerId state (0: null)
    dep,         \* the currentLayer the load effect last ran for
    fetches,     \* the file fetches of the mounted view that are in flight
    event,       \* the handler or callback of the client that ran last
    arg          \* the feature id that handler was called with, if any

serverVars == <<layers, reviews, foreignKeys, nextId, clock, files, bake, resp>>
clientVars == <<route, cLayers, cReviews, features, currentFeatureIndex,
                selectedLayerId, dep, fetches, event, arg>>
vars == <<serverVars, clientVars>>

-----------------------------------------------------------------------------
(* Bounds *)

MaxLayers == 2      \* layers ever created
MaxClock == 2       \* clock ticks
MaxBake == 2        \* concurrent apply-flags requests

LayerIds == 1..MaxLayers
Names == {"n1", "n2"}
Urls == {"u1", "u2"}
Colors == {"red"}

-----------------------------------------------------------------------------
(* JavaScript values: the ids and flags are dynamically typed in the code   *)

Undefined == [t |-> "undefined"]
Null == [t |-> "null"]
Str(s) == [t |-> "string", s |-> s]
Num(n) == [t |-> "number", n |-> n]
Bool(b) == [t |-> "boolean", b |-> b]

\* the decimal form of the small numbers the model uses
Digits == <<"0", "1", "2", "3", "4", "5", "6", "7", "8", "9">>

\* String(v)
JsString(v) ==
    CASE v.t = "string" -> v.s
      [] v.t = "number" -> Digits[v.n + 1]
      [] v.t = "boolean" -> IF v.b THEN "true" ELSE "false"
      [] v.t = "null" -> "null"
      [] OTHER -> "undefined"

\* the truthiness `||`, `?:`, `!` and Boolean() test
Truthy(v) ==
    CASE v.t = "string" -> v.s # ""
      [] v.t = "number" -> v.n # 0
      [] v.t = "boolean" -> v.b
      [] OTHER -> FALSE

\* a || b
Or(a, b) == IF Truthy(a) THEN a ELSE b

\* a === b (no coercion)
StrictEq(a, b) == a = b

-----------------------------------------------------------------------------
(* The database: src/api/db.ts *)

Range(s) == {s[i] : i \in DOMAIN s}

\* layerQueries.getById.get(id): the row, or Null
getById(id) ==
    IF \E i \in DOMAIN layers : layers[i].id = id
    THEN layers[CHOOSE i \in DOMAIN layers : layers[i].id = id]
    ELSE Null

\* the query without its WHERE clause
getByLayerIdAll(layerId) == reviews

\* featureReviewQueries.getByLayerId.all(layerId)
getByLayerId(layerId) == {r \in reviews : r.layerId = layerId}

\* the query without its layer_id condition
getByFeatureIdAnyLayer(featureId, layerId) == {r \in reviews : r.featureId = featureId}

\* featureReviewQueries.getByFeatureId.get(featureId, layerId): the rows that match
getByFeatureId(featureId, layerId) ==
    {r \in reviews : r.featureId = featureId /\ r.layerId = layerId}

\* a plain INSERT, without the ON CONFLICT clause and without the primary key
insertOnly(table, featureId, layerId, isFlagged, reviewedAt) ==
    table \cup {[featureId |-> featureId, layerId |-> layerId,
                 isFlagged |-> isFlagged, reviewedAt |-> reviewedAt]}

\* an upsert whose DO UPDATE leaves reviewed_at alone when is_flagged is the same
upsertKeepingTime(table, featureId, layerId, isFlagged, reviewedAt) ==
    IF \E r \in table : r.featureId = featureId /\ r.layerId = layerId
                            /\ r.isFlagged = isFlagged
    THEN table
    ELSE {r \in table : ~(r.featureId = featureId /\ r.layerId = layerId)}
            \cup {[featureId |-> featureId, layerId |-> layerId,
                   isFlagged |-> isFlagged, reviewedAt |-> reviewedAt]}

\* INSERT OR IGNORE: the row that is there stays
upsertIgnoring(table, featureId, layerId, isFlagged, reviewedAt) ==
    IF \E r \in table : r.featureId = featureId /\ r.layerId = layerId
    THEN table
    ELSE table \cup {[featureId |-> featureId, layerId |-> layerId,
                      isFlagged |-> isFlagged, reviewedAt |-> reviewedAt]}

\* featureReviewQueries.upsert: INSERT ... ON CONFLICT(feature_id, layer_id) DO UPDATE
upsert(table, featureId, layerId, isFlagged, reviewedAt) ==
    {r \in table : ~(r.featureId = featureId /\ r.layerId = layerId)}
        \cup {[featureId |-> featureId, layerId |-> layerId,
               isFlagged |-> isFlagged, reviewedAt |-> reviewedAt]}

\* the FOREIGN KEY (layer_id) REFERENCES layers(id) check of an insert
fkViolated(layerId) == foreignKeys /\ getById(layerId) = Null

\* DELETE FROM layers WHERE id = ?, with ON DELETE CASCADE when foreign keys are enforced
deleteReviews(table, layerId) ==
    IF foreignKeys THEN {r \in table : r.layerId # layerId} ELSE table

RemoveRow(s, id) == SelectSeq(s, LAMBDA row : row.id # id)

-----------------------------------------------------------------------------
(* The initial state: an empty database, the data files as found on disk *)

\* one feature of a file: its native id, its properties.id and its properties.isFlagged
Feature(id, pid) == [id |-> id, pid |-> pid, isFlagged |-> Undefined]

Missing == [kind |-> "missing"]                   \* no such file
Truncated == [kind |-> "truncated"]               \* opened for writing, content not yet written
Collection(fs) == [kind |-> "json", hasFeatures |-> TRUE, features |-> fs]
NoFeatures == [kind |-> "json", hasFeatures |-> FALSE, features |-> <<>>]

\* the sample file of the spec's scenario (ids a, b, c) and a shorter file whose
\* first feature has no native id but a properties.id, and whose second has a
\* numeric id
SampleFiles ==
    [u1 |-> Collection(<<Feature(Str("a"), Undefined), Feature(Str("b"), Undefined),
                         Feature(Str("c"), Undefined)>>),
     u2 |-> Collection(<<Feature(Undefined, Str("a")), Feature(Num(7), Undefined)>>)]

NoResponse == [op |-> "none", req |-> Null, status |-> 0, body |-> Null]

Init ==
    /\ layers = <<>>
    /\ reviews = {}
    /\ foreignKeys \in BOOLEAN
    /\ nextId = 0
    /\ clock = 0
    /\ files = SampleFiles
    /\ bake = EmptyBag
    /\ resp = NoResponse
    /\ route = "map"
    /\ cLayers = <<>>
    /\ cReviews = [id \in LayerIds |-> {}]
    /\ features = <<>>
    /\ currentFeatureIndex = 0
    /\ selectedLayerId = 0
    /\ dep = Undefined
    /\ fetches = EmptyBag
    /\ event = "mount"
    /\ arg = Undefined

-----------------------------------------------------------------------------
(* The layer registry: src/api/layers.ts *)

\* a response, with the request it answers (for an upsert, also the row of its
\* key that the request met, and whether it met one: the ON CONFLICT branch)
Response(op, req, status, body) == [op |-> op, req |-> req, status |-> status, body |-> body]
NotFoundAnsweredOk(op, req) == Response(op, req, 200, [success |-> TRUE])
NotFound(op, req) == Response(op, req, 404, [error |-> "Layer not found"])

\* new Date() moves on between requests
Tick ==
    /\ clock < MaxClock
    /\ clock' = clock + 1
    /\ UNCHANGED <<layers, reviews, foreignKeys, nextId, files, bake, resp>>

\* GET /api/layers
ListLayers ==
    /\ resp' = Response("list", Null, 200, layers)
    /\ UNCHANGED <<layers, reviews, foreignKeys, nextId, clock, files, bake>>

\* GET /api/layers/:id
GetLayer(id) ==
    /\ resp' = IF getById(id) = Null THEN NotFound("get", [id |-> id])
                ELSE Response("get", [id |-> id], 200, getById(id))
    /\ UNCHANGED <<layers, reviews, foreignKeys, nextId, clock, files, bake>>

\* POST /api/layers
CreateLayer(name, url, visible, color) ==
    /\ nextId < MaxLayers
    /\ LET row == [id |-> nextId + 1, name |-> name, url |-> url,
                   visible |-> IF visible THEN 1 ELSE 0,
                   color |-> Or(color, Null)]
       IN /\ layers' = Append(layers, row)
          /\ resp' = Response("create", Null, 201, row)
    /\ nextId' = nextId + 1
    /\ UNCHANGED <<reviews, foreignKeys, clock, files, bake>>

CoalesceKeepingOld(a, b) == b
\* a ?? b
Coalesce(a, b) == IF a = Undefined \/ a = Null THEN b ELSE a

\* PUT /api/layers/:id
UpdateLayer(id, data) ==
    /\ IF getById(id) = Null
       THEN /\ resp' = NotFound("update", [id |-> id, data |-> data])
            /\ UNCHANGED layers
       ELSE LET existing == getById(id)
                row == [id |-> id,
                        name |-> Coalesce(data.name, Str(existing.name)).s,
                        url |-> Coalesce(data.url, Str(existing.url)).s,
                        visible |-> IF data.visible # Undefined
                                    THEN (IF Truthy(data.visible) THEN 1 ELSE 0)
                                    ELSE (IF existing.visible # 0 THEN 1 ELSE 0),
                        color |-> IF data.color # Undefined THEN data.color ELSE existing.color]
            IN /\ layers' = [i \in DOMAIN layers |->
                                IF layers[i].id = id THEN row ELSE layers[i]]
               /\ resp' = Response("update", [id |-> id, data |-> data], 200, row)
    /\ UNCHANGED <<reviews, foreignKeys, nextId, clock, files, bake>>

\* DELETE /api/layers/:id
DeleteLayer(id) ==
    /\ IF getById(id) = Null
       THEN /\ resp' = NotFound("delete", [id |-> id])
            /\ UNCHANGED <<layers, reviews>>
       ELSE /\ layers' = RemoveRow(layers, id)
            /\ reviews' = deleteReviews(reviews, id)
            /\ resp' = Response("delete", [id |-> id], 200, [success |-> TRUE])
    /\ UNCHANGED <<foreignKeys, nextId, clock, files, bake>>

-----------------------------------------------------------------------------
(* The review store: src/api/features.ts *)

\* a row as the JSON the API sends: is_flagged is the INTEGER 0 or 1
RowJson(r) == [featureId |-> r.featureId, layerId |-> r.layerId,
               isFlagged |-> Num(r.isFlagged), reviewedAt |-> r.reviewedAt]

\* GET /api/features/layer/:layerId
ListForLayer(layerId) ==
    /\ resp' = Response("listForLayer", [layerId |-> layerId], 200,
                        {RowJson(r) : r \in getByLayerId(layerId)})
    /\ UNCHANGED <<layers, reviews, foreignKeys, nextId, clock, files, bake>>

\* GET /api/features/:layerId/:featureId
GetForFeature(layerId, featureId) ==
    /\ LET found == getByFeatureId(featureId, layerId)
           req == [layerId |-> layerId, featureId |-> featureId]
       IN resp' = IF found = {}
                  THEN Response("getForFeature", req, 200,
                                [featureId |-> featureId, layerId |-> layerId,
                                 isFlagged |-> Bool(FALSE), reviewedAt |-> clock])
                  ELSE Response("getForFeature", req, 200, RowJson(CHOOSE r \in found : TRUE))
    /\ UNCHANGED <<layers, reviews, foreignKeys, nextId, clock, files, bake>>

\* PUT /api/features/:layerId/:featureId
PutReview(layerId, featureId, isFlagged) ==
    /\ IF fkViolated(layerId)
       THEN /\ resp' = Response("upsert",
                                [layerId |-> layerId, featureId |-> featureId,
                                 isFlagged |-> isFlagged,
                                 before |-> getByFeatureId(featureId, layerId),
                                 conflict |-> FALSE], 500,
                                [error |-> "FOREIGN KEY constraint failed"])
            /\ UNCHANGED reviews
       ELSE /\ reviews' = upsert(reviews, featureId, layerId,
                                 IF isFlagged THEN 1 ELSE 0, clock)
            /\ resp' = Response("upsert",
                                [layerId |-> layerId, featureId |-> featureId,
                                 isFlagged |-> isFlagged,
                                 before |-> getByFeatureId(featureId, layerId),
                                 conflict |-> \E r \in reviews :
                                     r.featureId = featureId /\ r.layerId = layerId],
                                200,
                                [featureId |-> featureId, layerId |-> layerId,
                                 isFlagged |-> Num(IF isFlagged THEN 1 ELSE 0),
                                 reviewedAt |-> clock])
    /\ UNCHANGED <<layers, foreignKeys, nextId, clock, files, bake>>

-----------------------------------------------------------------------------
(* The feature source loader of the views: src/client/src/routes/map.tsx and  *)
(* table.tsx                                                                  *)

\* id: f.id || i  (i: the one-based position in the model, zero-based in the code)
loaderId(f, i) == Or(f.id, Num(i - 1))

\* data.features.map((f, i) => ({...f, id: f.id || i}))
withIds(fs) ==
    [i \in DOMAIN fs |-> [fs[i] EXCEPT !.id = loaderId(fs[i], i)]]

\* featureId: String(feature.id), the key a view writes a review under
reviewKey(feature) == JsString(feature.id)

-----------------------------------------------------------------------------
(* The flag bake-in: POST /api/layers/:id/apply-flags, src/api/layers.ts.     *)
(* The handler runs to its first await (readFile), resumes when the file has  *)
(* been read, and resumes again when writeFile has settled; writeFile opens   *)
(* the file for writing, which truncates it, and then writes the content.     *)

\* new Map(reviews.map(r => [r.featureId, r.isFlagged]))
FlagMap(rows) == {<<r.featureId, r.isFlagged>> : r \in rows}

\* flagMap.get(key): the INTEGER stored, or undefined
MapGet(flagMap, key) ==
    IF \E e \in flagMap : e[1] = key
    THEN Num((CHOOSE e \in flagMap : e[1] = key)[2])
    ELSE Undefined

\* const featureId = feature.id || feature.properties?.id  (i: position, unused)
bakeFeatureId(feature, i) == Or(feature.id, feature.pid)

\* the callback writing properties: { isFlagged } without spreading the feature's
\* own properties
bakeFeatureDroppingProperties(feature, i, flagMap) ==
    [id |-> feature.id, pid |-> Undefined,
     isFlagged |-> Bool(Truthy(MapGet(flagMap, JsString(bakeFeatureId(feature, i)))))]

\* the callback of geojson.features.map: the feature with properties.isFlagged set
bakeFeature(feature, i, flagMap) ==
    [feature EXCEPT !.isFlagged =
        Bool(Truthy(MapGet(flagMap, JsString(bakeFeatureId(feature, i)))))]

\* a bake-in that writes only the features that have a review
applyFlagsToReviewed(geojson, flagMap) ==
    IF geojson.hasFeatures
    THEN [geojson EXCEPT !.features =
            SelectSeq([i \in DOMAIN geojson.features |->
                          bakeFeature(geojson.features[i], i, flagMap)],
                      LAMBDA f : MapGet(flagMap, JsString(bakeFeatureId(f, 1))) # Undefined)]
    ELSE geojson

\* the body of the try block between JSON.parse and writeFile
applyFlags(geojson, flagMap) ==
    IF geojson.hasFeatures
    THEN [geojson EXCEPT !.features =
            [i \in DOMAIN geojson.features |-> bakeFeature(geojson.features[i], i, flagMap)]]
    ELSE geojson

\* the request as the response names it: the layer, its file, the reviews read
BakeReq(r) == [id |-> r.id, url |-> r.url, flagMap |-> r.flagMap]

BakeError(r, details) ==
    Response("applyFlags", BakeReq(r), 500,
             [error |-> "Failed to apply flags to file", details |-> details])

Started(r) == bake (+) SetToBag({r})
Moved(r, r2) == (bake (-) SetToBag({r})) (+) SetToBag({r2})
Finished(r) == bake (-) SetToBag({r})

\* the handler up to `await readFile`: resolve the layer, read its reviews
BakeStart(id) ==
    /\ BagCardinality(bake) < MaxBake
    /\ IF getById(id) = Null
       THEN /\ resp' = NotFound("applyFlags", [id |-> id])
            /\ UNCHANGED bake
       ELSE /\ bake' = Started([pc |-> "read", id |-> id, url |-> getById(id).url,
                                flagMap |-> FlagMap(getByLayerId(id)),
                                geojson |-> Null])
            /\ UNCHANGED resp
    /\ UNCHANGED <<layers, reviews, foreignKeys, nextId, clock, files>>

\* readFile settles; JSON.parse, the map over the features, and the call of writeFile
BakeRead(r) ==
    /\ r.pc = "read"
    /\ LET content == files[r.url]
       IN IF content.kind = "json"
          THEN /\ bake' = Moved(r, [r EXCEPT !.pc = "write",
                                             !.geojson = applyFlags(content, r.flagMap)])
               /\ UNCHANGED resp
          ELSE /\ bake' = Finished(r)
               /\ resp' = BakeError(r, IF content.kind = "missing"
                                       THEN "ENOENT" ELSE "Unexpected end of JSON input")
    /\ UNCHANGED <<layers, reviews, foreignKeys, nextId, clock, files>>

\* writeFile opens the file with flag 'w': the file is truncated
BakeOpen(r) ==
    /\ r.pc = "write"
    /\ files' = [files EXCEPT ![r.url] = Truncated]
    /\ bake' = Moved(r, [r EXCEPT !.pc = "writing"])
    /\ UNCHANGED <<layers, reviews, foreignKeys, nextId, clock, resp>>

\* a count of the features that were written with isFlagged: true
updatedFlagged(geojson) ==
    Cardinality({i \in DOMAIN geojson.features :
                    geojson.features[i].isFlagged = Bool(TRUE)})

\* updatedFeatures: geojson.features.length
updatedFeatures(geojson) == Len(geojson.features)

\* writeFile writes the serialised collection and settles; the handler answers
BakeWrite(r) ==
    /\ r.pc = "writing"
    /\ files' = [files EXCEPT ![r.url] = r.geojson]
    /\ resp' = IF r.geojson.hasFeatures
               THEN Response("applyFlags", BakeReq(r), 200,
                             [success |-> TRUE,
                              updatedFeatures |-> updatedFeatures(r.geojson)])
               ELSE BakeError(r, "undefined is not an object")
    /\ bake' = Finished(r)
    /\ UNCHANGED <<layers, reviews, foreignKeys, nextId, clock>>

\* GET /data/*: the static file server hands out the file as it is on disk
StaticFetch(url) ==
    /\ resp' = IF files[url].kind = "missing"
               THEN Response("static", [url |-> url], 404, Null)
               ELSE Response("static", [url |-> url], 200, files[url])
    /\ UNCHANGED <<layers, reviews, foreignKeys, nextId, clock, files, bake>>

-----------------------------------------------------------------------------
(* The review store under every order of requests, the layers created with  *)
(* the schema's defaults and deleted                                         *)

StoreKeys == {"0", "a"}

Next ==
    \/ CreateLayer("n1", "u1", TRUE, Undefined) /\ UNCHANGED clientVars
    \/ \E id \in LayerIds : DeleteLayer(id) /\ UNCHANGED clientVars
    \/ \E id \in LayerIds : ListForLayer(id) /\ UNCHANGED clientVars
    \/ \E id \in LayerIds, f \in StoreKeys : GetForFeature(id, f) /\ UNCHANGED clientVars
    \/ \E id \in LayerIds, f \in StoreKeys, b \in BOOLEAN :
          PutReview(id, f, b) /\ UNCHANGED clientVars

Spec == Init /\ [][Next]_vars

-----------------------------------------------------------------------------
(* Claims about the review store *)

SameKey(r1, r2) == r1.featureId = r2.featureId /\ r1.layerId = r2.layerId

\* C3: in every reachable state the feature_reviews table holds at most one row
\* per (featureId, layerId) pair, whatever upserts ran and in whatever order.
C3_OneRecordPerKey == \A r1, r2 \in reviews : SameKey(r1, r2) => r1 = r2

\* an upsert has just met an existing row of its key, and the key still has one row
C3_Witness ==
    /\ resp.op = "upsert" /\ resp.status = 200
    /\ resp.req.conflict
    /\ Cardinality({r \in reviews : r.featureId = resp.req.featureId
                                      /\ r.layerId = resp.req.layerId}) = 1
    /\ Cardinality(reviews) > 1

\* C4: once DELETE /api/layers/:id has answered 200, no review row of that layer
\* is left (listForLayer of it is empty).
C4_DeleteCascades ==
    (resp.op = "delete" /\ resp.status = 200)
        => {r \in reviews : r.layerId = resp.req.id} = {}

\* C10: a GET of a review whose key has no row answers isFlagged = false, and no
\* GET of a review changes the feature_reviews table.
C10_StateDefault ==
    (resp.op = "getForFeature"
        /\ ~\E r \in reviews : r.featureId = resp.req.featureId
                                 /\ r.layerId = resp.req.layerId)
        => resp.body.isFlagged = Bool(FALSE)

C10_GetStoresNothing == resp'.op = "getForFeature" => reviews' = reviews

C10_DefaultUnflagged == [](C10_StateDefault) /\ [][C10_GetStoresNothing]_vars

\* a review of a key with no row was read while other keys of the layer have rows
C10_Witness ==
    /\ resp.op = "getForFeature"
    /\ ~\E r \in reviews : r.featureId = resp.req.featureId
                             /\ r.layerId = resp.req.layerId
    /\ \E r \in reviews : r.layerId = resp.req.layerId /\ r.isFlagged = 1
    /\ resp.body.isFlagged = Bool(FALSE)

-----------------------------------------------------------------------------
(* The bake-in against reviews being written and the file being fetched *)

LayerIdsNow == {layers[i].id : i \in DOMAIN layers}
InFlight == BagToSet(bake)

\* one layer, on either file; its reviews written as the views write them
NextBake ==
    \/ \E u \in Urls :
          layers = <<>> /\ CreateLayer("n1", u, TRUE, Undefined) /\ UNCHANGED clientVars
    \/ \E id \in LayerIdsNow, f \in StoreKeys, b \in BOOLEAN :
          PutReview(id, f, b) /\ UNCHANGED clientVars
    \/ \E id \in LayerIds : BakeStart(id) /\ UNCHANGED clientVars
    \/ \E r \in InFlight : BakeRead(r) /\ UNCHANGED clientVars
    \/ \E r \in InFlight : BakeOpen(r) /\ UNCHANGED clientVars
    \/ \E r \in InFlight : BakeWrite(r) /\ UNCHANGED clientVars
    \/ \E u \in Urls : StaticFetch(u) /\ UNCHANGED clientVars

SpecBake == Init /\ [][NextBake]_vars

-----------------------------------------------------------------------------
(* Claims about the bake-in *)

\* the feature id of the data model: the native id, or the zero-based position
FeatureIdOf(f, i) == IF f.id # Undefined THEN f.id ELSE Num(i - 1)

\* C1: when apply-flags has answered 200, every feature of the file carries
\* isFlagged = true exactly when the reviews the call read hold a flagged row
\* for that feature's id (native id, else position), and false otherwise.
C1_BakeWritesStoredFlags ==
    (resp.op = "applyFlags" /\ resp.status = 200 /\ files[resp.req.url].kind = "json")
        => \A i \in DOMAIN files[resp.req.url].features :
              LET f == files[resp.req.url].features[i]
              IN f.isFlagged = Bool(<<JsString(FeatureIdOf(f, i)), 1>> \in resp.req.flagMap)

\* C2: for every feature of a file a bake-in has parsed, the key the bake-in looks
\* up equals the key under which the views store that feature's review.
C2_SameIdRule ==
    \A r \in InFlight :
        r.pc = "write" =>
            \A i \in DOMAIN r.geojson.features :
                LET f == r.geojson.features[i]
                IN JsString(bakeFeatureId(f, i)) = reviewKey(withIds(r.geojson.features)[i])

\* the step in which the handler r resumes after readFile and becomes r2
C8_ReadStep(r, r2) == r.pc = "read" /\ r2.pc = "write" /\ bake' = Moved(r, r2)

\* C8: a bake-in that reads the same reviews as the bake-in that answered last
\* (no upsert, no other response in between) computes for the file exactly the
\* content that is already on disk: every isFlagged stays as the first run left it.
C8_BakeTwiceNoOp ==
    [][\A r \in BagToSet(bake), r2 \in BagToSet(bake') :
          (C8_ReadStep(r, r2) /\ resp.op = "applyFlags" /\ resp.status = 200
              /\ resp.req = BakeReq(r))
              => r2.geojson = files[r.url]]_vars

\* a second run has parsed the file the first run wrote, with a flag set in it
C8_Witness ==
    \E r \in InFlight :
        /\ r.pc = "write"
        /\ resp.op = "applyFlags" /\ resp.status = 200 /\ resp.req = BakeReq(r)
        /\ files[r.url] = r.geojson
        /\ \E i \in DOMAIN r.geojson.features : r.geojson.features[i].isFlagged = Bool(TRUE)

\* C9: no reader is ever handed a partially written file: neither a fetch of the
\* file nor the read of a bake-in meets the file between its truncation and the
\* write of its content.
C9_NoPartialFileObserved ==
    /\ ~(resp.op = "static" /\ resp.status = 200 /\ resp.body = Truncated)
    /\ ~(resp.op = "applyFlags" /\ resp.status = 500
            /\ resp.body.details = "Unexpected end of JSON input")

-----------------------------------------------------------------------------
(* The views: src/client/src/routes/map.tsx and table.tsx, with the queries   *)
(* of hooks/useLayers and hooks/useFeatures. Handlers run to completion, and  *)
(* the state updates of one callback are rendered together.                   *)

MaxFetch == 2

\* layers.find((l) => l.visible)
currentLayerOf(ls) ==
    IF \E i \in DOMAIN ls : ls[i].visible # 0
    THEN ls[CHOOSE i \in DOMAIN ls :
                ls[i].visible # 0 /\ \A j \in 1..(i - 1) : ls[j].visible = 0]
    ELSE Undefined

currentLayer == currentLayerOf(cLayers)

\* useLayerReviews(currentLayer?.id || ''), and [] while there is no data
cachedReviews == IF currentLayer = Undefined THEN {} ELSE cReviews[currentLayer.id]

\* features[currentFeatureIndex]
currentFeature ==
    IF currentFeatureIndex + 1 \in DOMAIN features
    THEN features[currentFeatureIndex + 1]
    ELSE Undefined

\* reviews.find((r) => r.featureId === String(currentFeature?.id))
currentReview ==
    LET key == JsString(IF currentFeature = Undefined THEN Undefined ELSE currentFeature.id)
        found == {r \in cachedReviews : r.featureId = key}
    IN IF found = {} THEN Undefined ELSE CHOOSE r \in found : TRUE

\* currentReview?.isFlagged || false
isFlagged ==
    IF currentReview = Undefined THEN Bool(FALSE) ELSE Or(currentReview.isFlagged, Bool(FALSE))

canGoBack == currentFeatureIndex > 0
canGoForward == currentFeatureIndex < Len(features) - 1

\* new Map(reviews.map((r) => [r.featureId, r.isFlagged])): keys are strings
reviewsMap == {<<Str(r.featureId), r.isFlagged>> : r \in cachedReviews}

\* reviews.get(feature.id!) || false, the flag of a table row
rowFlag(feature) ==
    LET found == {e \in reviewsMap : StrictEq(e[1], feature.id)}
    IN IF found = {} THEN Bool(FALSE) ELSE Or((CHOOSE e \in found : TRUE)[2], Bool(FALSE))

\* the load effect up to its fetch, run for the current layer d by the view
\* whose state is st
effect(view, d, st) ==
    IF d = Undefined
    THEN [st EXCEPT !.features = <<>>]
    ELSE [st EXCEPT !.selectedLayerId = IF view = "map" THEN d.id ELSE @,
                    !.fetches = @ (+) SetToBag({[url |-> d.url]})]

viewState == [features |-> features, selectedLayerId |-> selectedLayerId,
              fetches |-> fetches]

SetViewState(st) ==
    /\ features' = st.features
    /\ selectedLayerId' = st.selectedLayerId
    /\ fetches' = st.fetches
    /\ BagCardinality(st.fetches) <= MaxFetch

\* the body of updateLayer.mutate({ id, visible })
visiblePatch(visible) ==
    [name |-> Undefined, url |-> Undefined, visible |-> Bool(visible), color |-> Undefined]

\* the layers query settles: the view renders the new list, and the load effect
\* runs when its currentLayer is not the one it last ran for
RefetchLayers ==
    /\ cLayers # layers
    /\ ListLayers
    /\ cLayers' = layers
    /\ LET d == currentLayerOf(layers)
       IN IF d # dep
          THEN SetViewState(effect(route, d, viewState)) /\ dep' = d
          ELSE UNCHANGED <<features, selectedLayerId, fetches, dep>>
    /\ event' = "layers"
    /\ arg' = Undefined
    /\ UNCHANGED <<route, cReviews, currentFeatureIndex>>

\* the reviews query of the current layer settles
RefetchReviews ==
    /\ currentLayer # Undefined
    /\ cReviews[currentLayer.id] # {RowJson(r) : r \in getByLayerId(currentLayer.id)}
    /\ ListForLayer(currentLayer.id)
    /\ cReviews' = [cReviews EXCEPT ![currentLayer.id] =
                        {RowJson(r) : r \in getByLayerId(currentLayer.id)}]
    /\ event' = "reviews"
    /\ arg' = Undefined
    /\ UNCHANGED <<route, cLayers, features, currentFeatureIndex, selectedLayerId,
                   dep, fetches>>

cursorKept(view, i) == i
\* setCurrentFeatureIndex(0) of the map view's load; the table has no cursor
cursorAfterLoad(view, i) == IF view = "map" THEN 0 ELSE i

\* fetch(currentLayer.url) settles: .then(res.json()).then(setFeatures ...), or
\* .catch(console.error) when the body is no JSON or has no features array
FetchSettles(ft) ==
    /\ ft \in BagToSet(fetches)
    /\ StaticFetch(ft.url)
    /\ fetches' = fetches (-) SetToBag({ft})
    /\ IF files[ft.url].kind = "json" /\ files[ft.url].hasFeatures
       THEN /\ features' = withIds(files[ft.url].features)
            /\ currentFeatureIndex' = cursorAfterLoad(route, currentFeatureIndex)
       ELSE UNCHANGED <<features, currentFeatureIndex>>
    /\ event' = "load"
    /\ arg' = Undefined
    /\ UNCHANGED <<route, cLayers, cReviews, selectedLayerId, dep>>

\* the router mounts the other view: fresh state, and the load effect runs
Navigate(to) ==
    /\ to # route
    /\ route' = to
    /\ SetViewState(effect(to, currentLayer,
                           [features |-> <<>>, selectedLayerId |-> 0,
                            fetches |-> EmptyBag]))
    /\ dep' = currentLayer
    /\ currentFeatureIndex' = 0
    /\ event' = "navigate"
    /\ arg' = Undefined
    /\ UNCHANGED <<serverVars, cLayers, cReviews>>

\* handleToggleLayer
HandleToggleLayer(layerId) ==
    /\ \E i \in DOMAIN cLayers : cLayers[i].id = layerId
    /\ LET layer == cLayers[CHOOSE i \in DOMAIN cLayers : cLayers[i].id = layerId]
       IN UpdateLayer(layerId, visiblePatch(layer.visible = 0))
    /\ event' = "toggleLayer"
    /\ arg' = Undefined
    /\ UNCHANGED <<route, cLayers, cReviews, features, currentFeatureIndex,
                   selectedLayerId, dep, fetches>>

back(i) == IF i > 0 THEN i - 1 ELSE i

forwardWrapping(i, n) == IF i < n - 1 THEN i + 1 ELSE 0
forward(i, n) == IF i < n - 1 THEN i + 1 ELSE i

\* features.findIndex((f) => f.id === id)
findIndex(fs, id) ==
    IF \E i \in DOMAIN fs : StrictEq(fs[i].id, id)
    THEN (CHOOSE i \in DOMAIN fs :
             StrictEq(fs[i].id, id) /\ \A j \in 1..(i - 1) : ~StrictEq(fs[j].id, id)) - 1
    ELSE -1

jumpToOrFirst(fs, id, i) == IF findIndex(fs, id) # -1 THEN findIndex(fs, id) ELSE 0
\* onFeatureClick: the cursor after a click on the feature with this id
jumpTo(fs, id, i) == IF findIndex(fs, id) # -1 THEN findIndex(fs, id) ELSE i

\* the controls are rendered while there is a current layer
Cursor(op, index) ==
    /\ route = "map"
    /\ currentLayer # Undefined
    /\ currentFeatureIndex' = index
    /\ event' = op
    /\ UNCHANGED <<serverVars, route, cLayers, cReviews, features, selectedLayerId,
                   dep, fetches>>

HandleBack == Cursor("back", back(currentFeatureIndex)) /\ arg' = Undefined
HandleForward ==
    Cursor("forward", forward(currentFeatureIndex, Len(features))) /\ arg' = Undefined
FeatureClick(id) ==
    Cursor("click", jumpTo(features, id, currentFeatureIndex)) /\ arg' = id

\* handleToggleFlag of the map view
MapToggleFlag ==
    /\ route = "map"
    /\ currentLayer # Undefined
    /\ currentFeature # Undefined
    /\ selectedLayerId # 0
    /\ PutReview(selectedLayerId, JsString(currentFeature.id), ~Truthy(isFlagged))
    /\ event' = "toggleFlag"
    /\ arg' = Undefined
    /\ UNCHANGED <<route, cLayers, cReviews, features, currentFeatureIndex,
                   selectedLayerId, dep, fetches>>

\* handleToggleFlag(feature.id, isFlagged) of a table row
TableToggleFlag(i) ==
    /\ route = "table"
    /\ currentLayer # Undefined
    /\ i \in DOMAIN features
    /\ PutReview(currentLayer.id, JsString(features[i].id), ~Truthy(rowFlag(features[i])))
    /\ event' = "toggleFlag"
    /\ arg' = Undefined
    /\ UNCHANGED <<route, cLayers, cReviews, features, currentFeatureIndex,
                   selectedLayerId, dep, fetches>>

-----------------------------------------------------------------------------
(* The navigation cursor of the map view, against layers created, shown and   *)
(* hidden and feature files arriving                                          *)

\* the ids a clicked map feature can carry: native ids of the files, or none
ClickIds == {Str("a"), Str("c"), Num(7), Undefined}

NextCursor ==
    \/ \E u \in Urls, v \in BOOLEAN :
          CreateLayer("n1", u, v, Undefined) /\ UNCHANGED clientVars
    \/ \E id \in LayerIds : HandleToggleLayer(id)
    \/ RefetchLayers
    \/ \E ft \in BagToSet(fetches) : FetchSettles(ft)
    \/ HandleBack
    \/ HandleForward
    \/ \E id \in ClickIds : FeatureClick(id)

\* no review is written here, so the foreign-key setting of the connection is
\* immaterial: one of the two is taken
InitCursor == Init /\ ~foreignKeys

SpecCursor == InitCursor /\ [][NextCursor]_vars

-----------------------------------------------------------------------------
(* Claims about the navigation cursor *)

\* C6: whenever the feature list is not empty the cursor satisfies
\* 0 <= currentFeatureIndex < features.length, whatever layers were created,
\* shown, hidden and loaded and whatever back, forward and click did before; and
\* when the list is empty there is no current feature.
C6_CursorInBounds ==
    /\ features # <<>> =>
          (0 <= currentFeatureIndex /\ currentFeatureIndex < Len(features))
    /\ features = <<>> => currentFeature = Undefined

\* a click has moved the cursor to the last feature of a list that was loaded
\* with two layers registered
C6_Witness ==
    /\ event = "click"
    /\ Len(features) = 3 /\ currentFeatureIndex = 2
    /\ Len(cLayers) = 2

\* a step of handleBack, of handleForward
C7_BackStep == event' = "back" /\ UNCHANGED serverVars
C7_ForwardStep == event' = "forward" /\ UNCHANGED serverVars

\* C7: back() takes the cursor from p to p-1 exactly when p > 0 and leaves it
\* otherwise; forward() takes it to p+1 exactly when p < length-1 and leaves it
\* otherwise; canGoBack and canGoForward hold exactly when the step changes the
\* cursor.
C7_BackForward ==
    [][/\ C7_BackStep =>
            /\ currentFeatureIndex' =
                  IF currentFeatureIndex > 0 THEN currentFeatureIndex - 1
                  ELSE currentFeatureIndex
            /\ canGoBack <=> currentFeatureIndex' # currentFeatureIndex
       /\ C7_ForwardStep =>
            /\ currentFeatureIndex' =
                  IF currentFeatureIndex < Len(features) - 1 THEN currentFeatureIndex + 1
                  ELSE currentFeatureIndex
            /\ canGoForward <=> currentFeatureIndex' # currentFeatureIndex]_vars

\* forward has run on a loaded list and the cursor stands on its last feature
C7_Witness ==
    /\ event = "forward"
    /\ Len(features) = 3 /\ currentFeatureIndex = Len(features) - 1
    /\ ~canGoForward /\ canGoBack

-----------------------------------------------------------------------------
(* The two views of one layer, flagging through either of them *)

Routes == {"map", "table"}

NextViews ==
    \/ \E u \in Urls :
          layers = <<>> /\ CreateLayer("n1", u, TRUE, Undefined) /\ UNCHANGED clientVars
    \/ RefetchLayers
    \/ RefetchReviews
    \/ \E ft \in BagToSet(fetches) : FetchSettles(ft)
    \/ \E to \in Routes : Navigate(to)
    \/ HandleBack
    \/ HandleForward
    \/ MapToggleFlag
    \/ \E i \in DOMAIN features : TableToggleFlag(i)

SpecViews == Init /\ [][NextViews]_vars

-----------------------------------------------------------------------------
(* Claims about the views *)

\* the mounted view has the registry's layers, the file of the current layer
\* and the store's reviews of that layer, and nothing is in flight
Settled ==
    /\ cLayers = layers
    /\ currentLayer # Undefined
    /\ fetches = EmptyBag
    /\ files[currentLayer.url].kind = "json"
    /\ features = withIds(files[currentLayer.url].features)
    /\ cReviews[currentLayer.id] = {RowJson(r) : r \in getByLayerId(currentLayer.id)}

\* the status the store holds for a loaded feature of the current layer
StoredFlag(feature) ==
    \E r \in reviews : /\ r.layerId = currentLayer.id
                       /\ r.featureId = reviewKey(feature)
                       /\ r.isFlagged = 1

\* C5: once a view has settled, the status it shows equals the stored status of
\* (current layer, feature id): the map view for its current feature, the table
\* view for every row, whether the feature id is a string, a number or a position.
C5_ViewsShowStoredStatus ==
    Settled =>
        /\ (route = "map" /\ currentFeature # Undefined)
              => (Truthy(isFlagged) <=> StoredFlag(currentFeature))
        /\ route = "table"
              => \A i \in DOMAIN features :
                    Truthy(rowFlag(features[i])) <=> StoredFlag(features[i])

-----------------------------------------------------------------------------
(* Upserts on one layer while the clock moves on *)

NextUpsert ==
    \/ layers = <<>> /\ CreateLayer("n1", "u1", TRUE, Undefined) /\ UNCHANGED clientVars
    \/ Tick /\ UNCHANGED clientVars
    \/ \E id \in LayerIdsNow, f \in StoreKeys, b \in BOOLEAN :
          PutReview(id, f, b) /\ UNCHANGED clientVars

SpecUpsert == Init /\ [][NextUpsert]_vars

-----------------------------------------------------------------------------
(* Claims about upserts *)

\* a step in which a PUT /api/features/:layerId/:featureId is answered
UpsertStep == resp'.op = "upsert" /\ resp' # resp

\* the rows of the key of the upsert answered last
RowsOfLastUpsert ==
    {r \in reviews : r.featureId = resp.req.featureId /\ r.layerId = resp.req.layerId}

\* C11: an upsert leaves exactly one row for its key, with the requested flag;
\* the reviewedAt it returns is the time of the call, whether or not the flag
\* changed, and is >= the reviewedAt of the row it met (so the second of two
\* upserts returns a reviewedAt >= the first).
C11_UpsertRefreshes ==
    [][(UpsertStep /\ resp'.status = 200) =>
          /\ {r \in reviews' : r.featureId = resp'.req.featureId
                                 /\ r.layerId = resp'.req.layerId}
                = {[featureId |-> resp'.req.featureId, layerId |-> resp'.req.layerId,
                    isFlagged |-> IF resp'.req.isFlagged THEN 1 ELSE 0,
                    reviewedAt |-> resp'.body.reviewedAt]}
          /\ resp'.body.reviewedAt = clock
          /\ \A r \in resp'.req.before : r.reviewedAt <= resp'.body.reviewedAt]_vars

\* upsert(L, F, true) has met the row of an earlier upsert(L, F, true) and has
\* stored a later reviewedAt
C11_Witness ==
    /\ resp.op = "upsert" /\ resp.status = 200 /\ resp.req.isFlagged
    /\ \E r \in resp.req.before : r.isFlagged = 1 /\ r.reviewedAt < resp.body.reviewedAt
    /\ \E r \in RowsOfLastUpsert : r.isFlagged = 1 /\ r.reviewedAt = resp.body.reviewedAt

\* C12: whatever upserts of a key were applied before, the stored isFlagged is
\* the value of the upsert applied last, and an upsert on an existing layer is
\* never answered with an error.
C12_LastWriterWins ==
    resp.op = "upsert" =>
        /\ getById(resp.req.layerId) # Null => resp.status = 200
        /\ resp.status = 200 =>
              \A r \in RowsOfLastUpsert :
                  r.isFlagged = (IF resp.req.isFlagged THEN 1 ELSE 0)
        /\ resp.status = 200 => RowsOfLastUpsert # {}

\* the upsert applied last has overwritten the opposite value of an earlier one
C12_Witness ==
    /\ resp.op = "upsert" /\ resp.status = 200
    /\ \E r \in resp.req.before : r.isFlagged # (IF resp.req.isFlagged THEN 1 ELSE 0)
    /\ \E r \in RowsOfLastUpsert : r.isFlagged = (IF resp.req.isFlagged THEN 1 ELSE 0)

-----------------------------------------------------------------------------
(* The layer registry under creation, partial updates, reads and deletion,   *)
(* with reviews stored and requests for ids that do not exist                *)

\* the bodies updateLayerSchema accepts: every field optional
Partials ==
    [name : {Undefined, Str("n2")}, url : {Undefined},
     visible : {Undefined, Bool(TRUE), Bool(FALSE)}, color : {Undefined, Str("blue")}]

NextRegistry ==
    \/ \E v \in BOOLEAN : CreateLayer("n1", "u1", v, Str("red")) /\ UNCHANGED clientVars
    \/ \E id \in LayerIds, data \in Partials : UpdateLayer(id, data) /\ UNCHANGED clientVars
    \/ \E id \in LayerIds : GetLayer(id) /\ UNCHANGED clientVars
    \/ \E id \in LayerIds : DeleteLayer(id) /\ UNCHANGED clientVars
    \/ PutReview(1, "a", TRUE) /\ UNCHANGED clientVars
    \/ \E id \in LayerIds \ LayerIdsNow : BakeStart(id) /\ UNCHANGED clientVars

SpecRegistry == Init /\ [][NextRegistry]_vars

-----------------------------------------------------------------------------
(* Claims about the layer registry *)

\* a step in which a request to the registry is answered
RegistryStep(ops) == resp'.op \in ops /\ resp' # resp

\* the row of a layer with one field set from a partial, if the partial has it
Patched(row, data) ==
    [id |-> row.id,
     name |-> IF data.name # Undefined THEN data.name.s ELSE row.name,
     url |-> IF data.url # Undefined THEN data.url.s ELSE row.url,
     visible |-> IF data.visible # Undefined
                 THEN (IF data.visible.b THEN 1 ELSE 0) ELSE row.visible,
     color |-> IF data.color # Undefined THEN data.color ELSE row.color]

\* C13: an update answered 200 sets exactly the fields its body holds (an
\* explicit visible=false included) and leaves the other fields of the layer and
\* every other layer as they were; a get returns the stored row.
C13_UpdateFrame ==
    /\ [][(RegistryStep({"update"}) /\ resp'.status = 200) =>
             /\ Len(layers') = Len(layers)
             /\ \A i \in DOMAIN layers :
                   layers'[i] = IF layers[i].id = resp'.req.id
                                THEN Patched(layers[i], resp'.req.data)
                                ELSE layers[i]
             /\ resp'.body = Patched(getById(resp'.req.id), resp'.req.data)]_vars
    /\ []((resp.op = "get" /\ resp.status = 200) => resp.body = getById(resp.req.id))

\* {visible:false} alone has been applied to a layer and a second layer exists:
\* the layer is hidden, its name and color are those of its creation
C13_Witness ==
    /\ resp.op = "update" /\ resp.status = 200
    /\ resp.req.data = [name |-> Undefined, url |-> Undefined,
                        visible |-> Bool(FALSE), color |-> Undefined]
    /\ Len(layers) = 2
    /\ resp.body.visible = 0 /\ resp.body.name = "n1" /\ resp.body.color = Str("red")
    /\ getById(resp.req.id) = resp.body

\* C14: get, update, delete and apply-flags for an id that is not in the registry
\* are answered 404 'Layer not found' and change neither the registry, nor the
\* review store, nor a file.
C14_NotFoundFrame ==
    [][(RegistryStep({"get", "update", "delete", "applyFlags"})
            /\ getById(resp'.req.id) = Null)
          => /\ resp'.status = 404
             /\ resp'.body = [error |-> "Layer not found"]
             /\ UNCHANGED <<layers, reviews, files>>]_vars

\* a request for a missing layer has been answered 404 while another layer and
\* reviews existed
C14_Witness ==
    /\ resp.status = 404 /\ resp.op \in {"update", "delete", "applyFlags"}
    /\ layers # <<>> /\ reviews # {}

-----------------------------------------------------------------------------
(* Loading files of any content: a layer on the second sample file, and a     *)
(* layer on a file that holds any small feature collection, or is missing, or *)
(* is no JSON, or has no features array                                       *)

MaxFeatures == 2

\* the native ids a feature of the file can carry, or none
NativeIds == {Undefined, Num(0), Num(1), Str("1"), Str("a")}

\* the features of a file: native ids, where present, differ from each other
FeatureLists ==
    UNION {{fs \in [1..n -> {Feature(id, Undefined) : id \in NativeIds}] :
               \A i, j \in 1..n :
                   (i # j /\ fs[i].id # Undefined) => fs[i].id # fs[j].id}
           : n \in 0..MaxFeatures}

FileContents == {Collection(fs) : fs \in FeatureLists} \cup {Missing, Truncated, NoFeatures}

InitLoad ==
    /\ layers = <<>>
    /\ reviews = {}
    /\ foreignKeys = FALSE
    /\ nextId = 0
    /\ clock = 0
    /\ \E c \in FileContents : files = [SampleFiles EXCEPT !["u1"] = c]
    /\ bake = EmptyBag
    /\ resp = NoResponse
    /\ route = "map"
    /\ cLayers = <<>>
    /\ cReviews = [id \in LayerIds |-> {}]
    /\ features = <<>>
    /\ currentFeatureIndex = 0
    /\ selectedLayerId = 0
    /\ dep = Undefined
    /\ fetches = EmptyBag
    /\ event = "mount"
    /\ arg = Undefined

NextLoad ==
    \/ \E v \in BOOLEAN :
          layers = <<>> /\ CreateLayer("n1", "u2", v, Undefined) /\ UNCHANGED clientVars
    \/ \E v \in BOOLEAN :
          Len(layers) = 1 /\ CreateLayer("n2", "u1", v, Undefined) /\ UNCHANGED clientVars
    \/ \E id \in LayerIds : HandleToggleLayer(id)
    \/ RefetchLayers
    \/ \E ft \in BagToSet(fetches) : FetchSettles(ft)
    \/ \E to \in Routes : Navigate(to)
    \/ HandleForward

SpecLoad == InitLoad /\ [][NextLoad]_vars

-----------------------------------------------------------------------------
(* Claims about loading *)

\* C15: the features a view has loaded have pairwise distinct ids, also in the
\* string form under which their reviews are stored.
C15_LoadedIdsDistinct ==
    \A i, j \in DOMAIN features :
        i # j => reviewKey(features[i]) # reviewKey(features[j])

\* a step in which a fetch of a file settles with a feature collection
LoadStep ==
    /\ event' = "load" /\ fetches' # fetches
    /\ resp'.status = 200 /\ resp'.body.kind = "json" /\ resp'.body.hasFeatures

\* C16: whenever the map view loads a list (the current layer changed, or its
\* file was fetched again), the list is the file's and the cursor is at 0
\* whatever it was before: on the first feature when the list is not empty, on
\* no feature when it is.
C16_LoadResetsCursor ==
    [][(LoadStep /\ route = "map") =>
          /\ features' = withIds(resp'.body.features)
          /\ currentFeatureIndex' = 0
          /\ features' # <<>> => currentFeature' = features'[1]
          /\ features' = <<>> => currentFeature' = Undefined]_vars

\* the second layer has become the current one and its list has been loaded
C16_Witness ==
    /\ event = "load" /\ route = "map"
    /\ resp.status = 200 /\ resp.body.kind = "json" /\ resp.body.hasFeatures
    /\ Len(cLayers) = 2 /\ currentLayer # Undefined /\ currentLayer.id = 2
    /\ resp.req.url = currentLayer.url
    /\ features = withIds(resp.body.features) /\ features # <<>>
    /\ currentFeatureIndex = 0

-----------------------------------------------------------------------------
(* Claims about clicks on map features *)

\* a step of onFeatureClick; arg' is the id of the clicked feature
C17_ClickStep == event' = "click" /\ UNCHANGED serverVars

-----------------------------------------------------------------------------
(* Claims about flagging from the map view *)

\* a step in which the Flag button of the map view (the button reads Flag: the
\* view shows the current feature as unflagged) sends its upsert and is answered
C18_FlagStep ==
    /\ route = "map" /\ event' = "toggleFlag"
    /\ resp'.op = "upsert" /\ resp' # resp /\ resp'.req.isFlagged

\* C18: pressing Flag on the current feature stores the feature as flagged and
\* selects the next feature: the cursor advances by one when there is a next
\* feature.
C18_FlagAdvances ==
    [][C18_FlagStep =>
          /\ \E r \in reviews' : /\ r.layerId = selectedLayerId
                                 /\ r.featureId = reviewKey(currentFeature)
                                 /\ r.isFlagged = 1
          /\ currentFeatureIndex' =
                IF canGoForward THEN currentFeatureIndex + 1 ELSE currentFeatureIndex]_vars

\* the part of C18 that the database sees
C18_FlagStored ==
    [][C18_FlagStep =>
          \E r \in reviews' : /\ r.layerId = selectedLayerId
                              /\ r.featureId = reviewKey(currentFeature)
                              /\ r.isFlagged = 1]_vars

-----------------------------------------------------------------------------
(* Claims about loads that fail *)

\* the fetch that settled last got no file, or no JSON, or no features array
LoadFailed ==
    /\ event = "load" /\ resp.op = "static"
    /\ (resp.status # 200 \/ resp.body.kind # "json" \/ ~resp.body.hasFeatures)

\* C19: when the load of the current layer's file has failed, the view does not
\* go on with a feature list loaded before: it holds no features.
C19_FailedLoadNotSwallowed ==
    (LoadFailed /\ currentLayer # Undefined /\ currentLayer.url = resp.req.url)
        => features = <<>>

-----------------------------------------------------------------------------
(* Claims about the list of a layer's reviews *)

\* C20: GET /api/features/layer/:layerId returns exactly the stored rows of that
\* layer: every row of the layer, one per reviewed feature, and no row of
\* another layer.
C20_ListForLayer ==
    [][(resp'.op = "listForLayer" /\ resp' # resp) =>
          /\ resp'.status = 200
          /\ resp'.body = {RowJson(r) : r \in {x \in reviews : x.layerId = resp'.req.layerId}}
          /\ \A e \in resp'.body : e.layerId = resp'.req.layerId
          /\ \A e1, e2 \in resp'.body : e1.featureId = e2.featureId => e1 = e2
          /\ Cardinality(resp'.body)
                = Cardinality({x.featureId : x \in {y \in reviews :
                                                      y.layerId = resp'.req.layerId}})
          /\ reviews' = reviews]_vars

\* only one feature of the layer is reviewed, flagged, and reviews of another
\* layer are stored: the list is that one record
C20_Witness ==
    /\ resp.op = "listForLayer" /\ resp.status = 200
    /\ Cardinality(resp.body) = 1
    /\ \E e \in resp.body : e.featureId = "a" /\ Truthy(e.isFlagged)
    /\ \E r \in reviews : r.layerId # resp.req.layerId

-----------------------------------------------------------------------------
(* Claims about the ids the loader assigns *)

\* C21: after a load, every feature of the list carries, in file order, its
\* native id when the file gives it one (0 and the empty string included), and
\* its zero-based position otherwise.
C21_LoaderKeepsNativeId ==
    (event = "load" /\ resp.op = "static" /\ resp.status = 200
        /\ resp.body.kind = "json" /\ resp.body.hasFeatures)
        => /\ Len(features) = Len(resp.body.features)
           /\ \A i \in DOMAIN features :
                 features[i].id = FeatureIdOf(resp.body.features[i], i)

-----------------------------------------------------------------------------
(* The bake-in on files of every kind: the two sample files, a JSON file      *)
(* without features array, and a layer whose file does not exist              *)

BakeFiles ==
    [u1 |-> SampleFiles.u1, u2 |-> SampleFiles.u2, u3 |-> NoFeatures, u4 |-> Missing]

InitBakeFiles ==
    /\ layers = <<>>
    /\ reviews = {}
    /\ foreignKeys = FALSE
    /\ nextId = 0
    /\ clock = 0
    /\ files = BakeFiles
    /\ bake = EmptyBag
    /\ resp = NoResponse
    /\ route = "map"
    /\ cLayers = <<>>
    /\ cReviews = [id \in LayerIds |-> {}]
    /\ features = <<>>
    /\ currentFeatureIndex = 0
    /\ selectedLayerId = 0
    /\ dep = Undefined
    /\ fetches = EmptyBag
    /\ event = "mount"
    /\ arg = Undefined

NextBakeFiles ==
    \/ \E u \in DOMAIN BakeFiles :
          layers = <<>> /\ CreateLayer("n1", u, TRUE, Undefined) /\ UNCHANGED clientVars
    \/ \E id \in LayerIdsNow, b \in BOOLEAN :
          PutReview(id, "a", b) /\ UNCHANGED clientVars
    \/ \E id \in LayerIdsNow : BakeStart(id) /\ UNCHANGED clientVars
    \/ \E r \in InFlight : BakeRead(r) /\ UNCHANGED clientVars
    \/ \E r \in InFlight : BakeOpen(r) /\ UNCHANGED clientVars
    \/ \E r \in InFlight : BakeWrite(r) /\ UNCHANGED clientVars

SpecBakeFiles == InitBakeFiles /\ [][NextBakeFiles]_vars

-----------------------------------------------------------------------------
(* Claims about what the bake-in changes *)

\* a file without the isFlagged of its features: their number, order, native
\* ids and other properties
Skeleton(content) ==
    IF content.kind = "json"
    THEN [content EXCEPT !.features =
             [i \in DOMAIN content.features |->
                 [content.features[i] EXCEPT !.isFlagged = Undefined]]]
    ELSE content

\* a step of an apply-flags handler
BakeStep == bake' # bake \/ (resp'.op = "applyFlags" /\ resp' # resp)

\* some apply-flags handler is between the truncation and the write of the file
BeingWritten(url) == \E r \in InFlight : r.url = url /\ r.pc = "writing"

C22_StoreAndRegistryKept == BakeStep => (layers' = layers /\ reviews' = reviews)

C22_FileKept ==
    \A u \in DOMAIN files :
        ~BeingWritten(u) => Skeleton(files[u]) = Skeleton(BakeFiles[u])

C23_SuccessStep ==
    /\ BagCardinality(bake') < BagCardinality(bake)
    /\ resp'.op = "applyFlags" /\ resp'.status = 200

\* C23: when apply-flags answers 200, the file holds the collection the call
\* wrote, and updatedFeatures is the number of features of that collection.
C23_CountIsWritten ==
    [][C23_SuccessStep =>
          /\ files'[resp'.req.url].kind = "json"
          /\ files'[resp'.req.url].hasFeatures
          /\ resp'.body.updatedFeatures = Len(files'[resp'.req.url].features)
          /\ resp'.body.updatedFeatures = Len(BakeFiles[resp'.req.url].features)]_vars

\* a call on the three features of the first sample file has answered 3, with
\* one of the three flagged
C23_Witness ==
    /\ resp.op = "applyFlags" /\ resp.status = 200 /\ resp.req.url = "u1"
    /\ resp.body.updatedFeatures = 3
    /\ files["u1"].kind = "json"
    /\ Cardinality({i \in DOMAIN files["u1"].features :
                       files["u1"].features[i].isFlagged = Bool(TRUE)}) = 1

\* a step in which the apply-flags handler r answers with an error
C27_ErrorStep(r) ==
    /\ bake' = Finished(r) /\ bake' # bake
    /\ resp'.op = "applyFlags" /\ resp'.status = 500 /\ resp'.req = BakeReq(r)

\* C27: a call that answers with an error has not written the file: it has not
\* reached writeFile, and its last step leaves the file as it is.
C27_ErrorMeansNoWrite ==
    [][\A r \in InFlight :
          C27_ErrorStep(r) => (r.pc = "read" /\ files' = files)]_vars

-----------------------------------------------------------------------------
(* Two bake-ins of one layer racing: reviews are written while at most one    *)
(* call is in flight, so that of two calls in flight the one started second   *)
(* has read the reviews after the last upsert                                 *)

NextBakeRace ==
    \/ layers = <<>> /\ CreateLayer("n1", "u1", TRUE, Undefined) /\ UNCHANGED clientVars
    \/ \E id \in LayerIdsNow, b \in BOOLEAN :
          /\ BagCardinality(bake) <= 1
          /\ PutReview(id, "a", b) /\ UNCHANGED clientVars
    \/ \E id \in LayerIdsNow : BakeStart(id) /\ UNCHANGED clientVars
    \/ \E r \in InFlight : BakeRead(r) /\ UNCHANGED clientVars
    \/ \E r \in InFlight : BakeOpen(r) /\ UNCHANGED clientVars
    \/ \E r \in InFlight : BakeWrite(r) /\ UNCHANGED clientVars

SpecBakeRace == Init /\ [][NextBakeRace]_vars

-----------------------------------------------------------------------------
(* Claims about racing bake-ins *)

\* the file's flags are the store's statuses of the layer: every feature is
\* written flagged exactly when the store holds a flagged row for its id
FileMatchesStore(content, layerId) ==
    /\ content.kind = "json"
    /\ \A i \in DOMAIN content.features :
          LET f == content.features[i]
          IN f.isFlagged =
                Bool(\E row \in getByLayerId(layerId) :
                        /\ row.featureId = JsString(FeatureIdOf(f, i))
                        /\ row.isFlagged = 1)

\* the step in which the only call left in flight, r, writes the file and
\* answers 200, after a call of the same layer that had read the reviews as
\* they are stored now (so it started after the last upsert) has answered 200
C28_LastCallFinishes(r) ==
    /\ bake = SetToBag({r}) /\ bake' = EmptyBag
    /\ resp'.op = "applyFlags" /\ resp'.status = 200
    /\ resp.op = "applyFlags" /\ resp.status = 200 /\ resp.req.id = r.id
    /\ resp.req.flagMap = FlagMap(getByLayerId(r.id))

\* C28: when a call has started after the last upsert, then once every call in
\* flight has finished the flags of the file are the statuses of the store: a
\* call that read the reviews earlier does not overwrite the file with them.
C28_NoStaleOverwrite ==
    [][\A r \in InFlight :
          C28_LastCallFinishes(r) => FileMatchesStore(files'[r.url], r.id)]_vars

-----------------------------------------------------------------------------
(* Claims about the layers that reviews refer to *)

\* C29: in every reachable state every row of feature_reviews has the id of a
\* row of layers: no upsert stores a review for a layer that does not exist or
\* has been deleted.
C29_ReviewsOfExistingLayers == \A r \in reviews : getById(r.layerId) # Null

-----------------------------------------------------------------------------
(* Claims about the active layer *)

\* C24: the active layer of the mounted view is the first visible layer of the
\* list the view holds; when the list has no visible layer, there is no active
\* layer and the view holds no features.
C24_ActiveLayer ==
    /\ \A i \in DOMAIN cLayers :
          (cLayers[i].visible # 0 /\ \A j \in 1..(i - 1) : cLayers[j].visible = 0)
              => currentLayer = cLayers[i]
    /\ (\A i \in DOMAIN cLayers : cLayers[i].visible = 0)
          => (currentLayer = Undefined /\ features = <<>>)

-----------------------------------------------------------------------------
(* The map view with two layers on the two sample files: layers shown and     *)
(* hidden while files are being fetched and flags are being toggled           *)

NextSwitch ==
    \/ layers = <<>> /\ CreateLayer("n1", "u1", TRUE, Undefined) /\ UNCHANGED clientVars
    \/ \E v \in BOOLEAN :
          Len(layers) = 1 /\ CreateLayer("n2", "u2", v, Undefined) /\ UNCHANGED clientVars
    \/ \E id \in LayerIds : HandleToggleLayer(id)
    \/ RefetchLayers
    \/ \E ft \in BagToSet(fetches) : FetchSettles(ft)
    \/ MapToggleFlag

SpecSwitch == Init /\ [][NextSwitch]_vars

-----------------------------------------------------------------------------
(* Claims about flags toggled while the layer changes *)

\* the keys under which the views store the reviews of the features of a file
KeysOfFile(url) ==
    IF files[url].kind = "json"
    THEN {reviewKey(withIds(files[url].features)[i]) : i \in DOMAIN files[url].features}
    ELSE {}

\* a step in which the flag toggle of the map view sends its upsert
C25_ToggleStep ==
    /\ route = "map" /\ event' = "toggleFlag"
    /\ resp'.op = "upsert" /\ resp' # resp

\* C25: every review the map view's flag toggle writes is stored for a layer
\* and a feature of that layer's file: never for the layer that has just become
\* the active one with the id of a feature of the list loaded before.
C25_ReviewOfOwnLayer ==
    [][C25_ToggleStep =>
          /\ getById(resp'.req.layerId) # Null
          /\ resp'.req.featureId \in KeysOfFile(getById(resp'.req.layerId).url)]_vars

-----------------------------------------------------------------------------
(* Claims about file responses that arrive late *)

\* C26: once no fetch of a file is in flight, the features the view holds are
\* those of the file of its current layer, whatever layers were the current
\* one before and in whatever order their files arrived.
C26_ListOfCurrentLayer ==
    (fetches = EmptyBag /\ currentLayer # Undefined
        /\ files[currentLayer.url].kind = "json")
        => features = withIds(files[currentLayer.url].features)

-----------------------------------------------------------------------------
(* Claims about repeated toggles *)

\* a step in which a press of the flag toggle, in either view, is answered
C30_ToggleStep ==
    /\ event' = "toggleFlag"
    /\ resp'.op = "upsert" /\ resp'.status = 200 /\ resp' # resp

\* C30: every press of the flag toggle inverts the stored status of its
\* feature (no row counting as not flagged), whether or not the cached list of
\* reviews has been refreshed since the press before: so after n presses the
\* stored status differs from the first one exactly when n is odd.
C30_ToggleInverts ==
    [][C30_ToggleStep =>
          resp'.req.isFlagged # (\E r \in resp'.req.before : r.isFlagged = 1)]_vars

====
